---- MODULE Spec2Model ----
(***************************************************************************)
(* A model of the prompt library (src/prompt/__init__.py): one call of one *)
(* of the prompt functions, from the call to its return or raise.          *)
(*                                                                         *)
(* Every prompt function retries by calling itself, so one execution of a  *)
(* function body (one "attempt": build the prompt, read one line, decide)  *)
(* is one step of the model.  The body of each function is an operator     *)
(* from the frame's arguments and the line the terminal delivers to the    *)
(* terminal I/O the body performs and its outcome: a return, a recursive   *)
(* call with new arguments, or a raise.                                    *)
(*                                                                         *)
(* Python strings are sequences of one-character strings; Python values    *)
(* are records tagged with their type.                                     *)
(***************************************************************************)
EXTENDS Integers, Sequences, FiniteSets, TLC

VARIABLES
    pc,      \* "idle", "running" (a frame is about to execute), "returned", "raised"
    kind,    \* the prompt function that was called
    call,    \* the arguments of the caller's call
    args,    \* the arguments of the frame about to execute
    io,      \* the terminal transcript: every print and every read, in order
    result   \* the value returned, or the exception raised

vars == <<pc, kind, call, args, io, result>>

\* The largest number of attempts (frames) of one call that the model follows.
MaxAttempts == 3

----------------------------------------------------------------------------
(* Python values *)

None == [t |-> "None"]
StrV(s) == [t |-> "str", s |-> s]
IntV(i) == [t |-> "int", i |-> i]
\* A float n/d, d a power of ten, in lowest terms of ten.
FloatV(n, d) == [t |-> "float", n |-> n, d |-> d]
BoolV(b) == [t |-> "bool", b |-> b]
\* The match object of re.match: the pattern, the subject and the span matched.
MatchV(p, s, e) == [t |-> "match", re |-> p, string |-> s, span |-> <<0, e>>]
Exc(name) == [t |-> "exception", name |-> name]

\* bool(v): the truth value Python's `if v` / `not v` tests.
Truthy(v) ==
    CASE v.t = "None" -> FALSE
      [] v.t = "str" -> Len(v.s) > 0
      [] v.t = "int" -> v.i # 0
      [] v.t = "float" -> v.n # 0
      [] v.t = "bool" -> v.b
      [] OTHER -> TRUE

Digits == <<"0", "1", "2", "3", "4", "5", "6", "7", "8", "9">>
IsDigit(c) == \E k \in 1..10 : Digits[k] = c
DigitVal(c) == (CHOOSE k \in 1..10 : Digits[k] = c) - 1

RECURSIVE NatStr(_)
\* str(n) for n >= 0.
NatStr(n) == IF n < 10 THEN <<Digits[n + 1]>> ELSE NatStr(n \div 10) \o <<Digits[(n % 10) + 1]>>

IntStr(i) == IF i < 0 THEN <<"-">> \o NatStr(-i) ELSE NatStr(i)

RECURSIVE FracStr(_, _)
\* The digits of n/d after the point, d a power of ten and 0 <= n < d.
FracStr(n, d) == IF d = 1 THEN <<>> ELSE <<Digits[(n \div (d \div 10)) + 1]>> \o FracStr(n % (d \div 10), d \div 10)

\* repr of a float n/d: "1.0", "0.5", "-1.5".
FloatStr(n, d) ==
    LET m == IF n < 0 THEN -n ELSE n
        sign == IF n < 0 THEN <<"-">> ELSE <<>>
    IN sign \o NatStr(m \div d) \o <<".">> \o (IF d = 1 THEN <<"0">> ELSE FracStr(m % d, d))

\* '{}'.format(v): the text str.format renders for a value.
Format(v) ==
    CASE v.t = "None" -> <<"N", "o", "n", "e">>
      [] v.t = "str" -> v.s
      [] v.t = "int" -> IntStr(v.i)
      [] v.t = "float" -> FloatStr(v.n, v.d)
      [] v.t = "bool" -> IF v.b THEN <<"T", "r", "u", "e">> ELSE <<"F", "a", "l", "s", "e">>
      [] OTHER -> <<"<", v.t, ">">>

----------------------------------------------------------------------------
(* Python built-ins and the regular-expression engine, as far as the lines *)
(* and patterns of the model exercise them                                 *)

UpperCase == <<"A", "B", "C", "D", "E", "F", "G", "H", "I", "J", "K", "L", "M",
               "N", "O", "P", "Q", "R", "S", "T", "U", "V", "W", "X", "Y", "Z">>
LowerCase == <<"a", "b", "c", "d", "e", "f", "g", "h", "i", "j", "k", "l", "m",
               "n", "o", "p", "q", "r", "s", "t", "u", "v", "w", "x", "y", "z">>

\* str.lower(), on ASCII text.
Lower(s) ==
    [i \in 1..Len(s) |->
        IF \E k \in 1..26 : UpperCase[k] = s[i]
        THEN LowerCase[CHOOSE k \in 1..26 : UpperCase[k] = s[i]]
        ELSE s[i]]

\* str.startswith
StartsWith(s, prefix) == Len(prefix) <= Len(s) /\ SubSeq(s, 1, Len(prefix)) = prefix

IsSpace(c) == c \in {" ", "\t"}

RECURSIVE LStrip(_)
LStrip(s) == IF Len(s) > 0 /\ IsSpace(s[1]) THEN LStrip(Tail(s)) ELSE s
RECURSIVE RStrip(_)
RStrip(s) == IF Len(s) > 0 /\ IsSpace(s[Len(s)]) THEN RStrip(SubSeq(s, 1, Len(s) - 1)) ELSE s
\* str.strip(): int() and float() ignore surrounding whitespace.
Strip(s) == RStrip(LStrip(s))

HasSign(s) == Len(s) > 0 /\ s[1] \in {"+", "-"}
Unsigned(s) == IF HasSign(s) THEN Tail(s) ELSE s

\* A digit part: digits, with single underscores allowed between two digits.
IsDigitPart(u) ==
    /\ Len(u) > 0
    /\ \A i \in 1..Len(u) :
          \/ IsDigit(u[i])
          \/ u[i] = "_" /\ 1 < i /\ i < Len(u) /\ IsDigit(u[i - 1]) /\ IsDigit(u[i + 1])

RECURSIVE DigitsVal(_)
\* The base-10 value of a digit part (underscores skipped).
DigitsVal(u) ==
    IF Len(u) = 0 THEN 0
    ELSE IF u[Len(u)] = "_" THEN DigitsVal(SubSeq(u, 1, Len(u) - 1))
    ELSE 10 * DigitsVal(SubSeq(u, 1, Len(u) - 1)) + DigitVal(u[Len(u)])

\* int(s): the integer a base-10 literal denotes, or ValueError.
py_int(s) ==
    LET t == Strip(s)
        u == Unsigned(t)
    IN IF IsDigitPart(u)
       THEN IntV(IF HasSign(t) /\ t[1] = "-" THEN -DigitsVal(u) ELSE DigitsVal(u))
       ELSE Exc("ValueError")

RECURSIVE Pow10(_)
Pow10(k) == IF k = 0 THEN 1 ELSE 10 * Pow10(k - 1)

RECURSIVE Reduce10(_, _)
\* n/d with d a power of ten, reduced: equal floats get equal representations.
Reduce10(n, d) == IF d > 1 /\ n % 10 = 0 THEN Reduce10(n \div 10, d \div 10) ELSE <<n, d>>

NumDigits(u) == Len(SelectSeq(u, IsDigit))

\* float(s) for decimal literals without exponent ("1", "1.0", ".5", "5.",
\* "-1.5"), or ValueError.  The lines of the model hold no exponent and none
\* of the words inf, nan, infinity.
py_float(s) ==
    LET t == Strip(s)
        u == Unsigned(t)
        dots == {i \in 1..Len(u) : u[i] = "."}
        p == IF dots = {} THEN Len(u) + 1 ELSE CHOOSE i \in dots : TRUE
        ip == SubSeq(u, 1, p - 1)
        fp == SubSeq(u, p + 1, Len(u))
        ok == /\ Cardinality(dots) <= 1
              /\ Len(ip) = 0 \/ IsDigitPart(ip)
              /\ Len(fp) = 0 \/ IsDigitPart(fp)
              /\ Len(ip) + Len(fp) > 0
        mag == Reduce10(DigitsVal(ip) * Pow10(NumDigits(fp)) + DigitsVal(fp), Pow10(NumDigits(fp)))
    IN IF ok
       THEN FloatV(IF HasSign(t) /\ t[1] = "-" THEN -mag[1] ELSE mag[1], mag[2])
       ELSE Exc("ValueError")

\* RE_EMAIL_SIMPLE.match(s) for ^[^@]+@[^@]+\.[^@]+$ : whether it matches.
RE_EMAIL_SIMPLE(s) ==
    \E i \in 1..Len(s) : \E j \in 1..Len(s) :
        /\ s[i] = "@"
        /\ \A k \in 1..Len(s) : s[k] = "@" => k = i
        /\ 1 < i
        /\ i + 1 < j
        /\ s[j] = "."
        /\ j < Len(s)

\* re.IGNORECASE
IGNORECASE == 2

\* A pattern of the model is a literal, optionally followed by $:
\* Pattern(<<"a","b">>, FALSE) is r"ab", Pattern(<<>>, TRUE) is r"$".
Pattern(lit, eol) == [lit |-> lit, eol |-> eol]

\* re.match(pattern, s, flags): the match object of a match at the start of
\* s, or None.
re_match(pattern, s, flags) ==
    LET fold(x) == IF flags = IGNORECASE THEN Lower(x) ELSE x
    IN IF /\ StartsWith(fold(s), fold(pattern.lit))
          /\ pattern.eol => Len(s) = Len(pattern.lit)
       THEN MatchV(pattern, s, Len(pattern.lit))
       ELSE None

\* t[num] on a tuple: Python counts a negative index from the end.
tuple_getitem(t, num) ==
    IF 0 <= num /\ num < Len(t) THEN t[num + 1]
    ELSE IF -Len(t) <= num /\ num < 0 THEN t[Len(t) + num + 1]
    ELSE Exc("IndexError")

----------------------------------------------------------------------------
(* The outcome of one execution of a function body *)

Return(v) == [op |-> "return", value |-> v]
Recurse(a) == [op |-> "call", args |-> a]
Raise(name) == [op |-> "raise", value |-> Exc(name)]

\* input(text) returning line s: the prompt is displayed, then one line is read.
Input(text, s) == [op |-> "input", text |-> text, line |-> s]
\* getpass.getpass(text) returning line s: the same, read without echo.
GetPass(text, s) == [op |-> "getpass", text |-> text, line |-> s]
\* getpass.getpass(text) failing: no line is delivered.
GetPassFailed(text) == [op |-> "getpass_failed", text |-> text]
\* print(text)
Output(text) == [op |-> "print", text |-> text]
\* Whether a transcript entry is a read that delivered a line.
IsRead(e) == e.op \in {"input", "getpass"}

PROMPT == <<"?", " ">>

make_prompt(prompt, default) ==
    IF ~Truthy(prompt)
    THEN IF Truthy(default) THEN <<"[">> \o Format(default) \o <<"]", "?", " ">> ELSE PROMPT
    ELSE Format(prompt)

----------------------------------------------------------------------------
(* The prompt functions: one execution of the body, on frame arguments a,  *)
(* when the terminal delivers line s                                       *)

\* A faulty variant of character: any non-empty line is accepted.
character_any_length(a, s) ==
    [io |-> <<Input(make_prompt(a.prompt, a.default), s)>>,
     res |-> IF Len(s) = 0
             THEN IF a.default # None THEN Return(a.default)
                  ELSE IF a.empty THEN Return(None)
                  ELSE Return(None)
             ELSE IF Len(s) >= 1 THEN Return(StrV(s))
             ELSE Recurse([prompt |-> a.prompt, empty |-> a.empty, default |-> None])]

character(a, s) ==
    [io |-> <<Input(make_prompt(a.prompt, a.default), s)>>,
     res |-> IF Len(s) = 0
             THEN IF a.default # None THEN Return(a.default)
                  ELSE IF a.empty THEN Return(None)
                  ELSE Return(None)   \* no branch is taken: the body ends, which returns None
             ELSE IF Len(s) = 1 THEN Return(StrV(s))
             ELSE Recurse([prompt |-> a.prompt, empty |-> a.empty, default |-> None])]

\* A faulty variant of email: the mode is looked at only after the line is read.
email_late_mode_check(a, s) ==
    [io |-> <<Input(make_prompt(a.prompt, a.default), s)>>,
     res |-> IF a.mode # "simple" THEN Raise("ValueError")
             ELSE IF Len(s) = 0
             THEN IF a.default # None THEN Return(a.default)
                  ELSE IF a.empty THEN Return(None)
                  ELSE Return(None)
             ELSE IF RE_EMAIL_SIMPLE(s) THEN Return(StrV(s))
             ELSE Recurse([prompt |-> a.prompt, empty |-> a.empty, mode |-> a.mode,
                           default |-> None])]

email(a, s) ==
    IF a.mode = "simple"
    THEN [io |-> <<Input(make_prompt(a.prompt, a.default), s)>>,
          res |-> IF Len(s) = 0
                  THEN IF a.default # None THEN Return(a.default)
                       ELSE IF a.empty THEN Return(None)
                       ELSE Return(None)   \* the body ends
                  ELSE IF RE_EMAIL_SIMPLE(s) THEN Return(StrV(s))
                  ELSE Recurse([prompt |-> a.prompt, empty |-> a.empty, mode |-> a.mode,
                                default |-> None])]
    ELSE [io |-> <<>>, res |-> Raise("ValueError")]

\* A faulty variant of integer: the default is tested for truth (`if default`),
\* not against None.
integer_truthy_default(a, s) ==
    [io |-> <<Input(make_prompt(a.prompt, a.default), s)>>,
     res |-> IF Len(s) = 0
             THEN IF Truthy(a.default) THEN Return(a.default)
                  ELSE IF a.empty THEN Return(None)
                  ELSE Return(None)
             ELSE IF py_int(s).t = "int" THEN Return(py_int(s))
             ELSE Recurse([prompt |-> a.prompt, empty |-> a.empty, default |-> None])]

integer(a, s) ==
    [io |-> <<Input(make_prompt(a.prompt, a.default), s)>>,
     res |-> IF Len(s) = 0
             THEN IF a.default # None THEN Return(a.default)
                  ELSE IF a.empty THEN Return(None)
                  ELSE Return(None)   \* the body ends
             ELSE IF py_int(s).t = "int" THEN Return(py_int(s))
             ELSE Recurse([prompt |-> a.prompt, empty |-> a.empty, default |-> None])]

real(a, s) ==
    [io |-> <<Input(make_prompt(a.prompt, a.default), s)>>,
     res |-> IF Len(s) = 0
             THEN IF a.default # None THEN Return(a.default)
                  ELSE IF a.empty THEN Return(None)
                  ELSE Return(None)   \* the body ends
             ELSE IF py_float(s).t = "float" THEN Return(py_float(s))
             ELSE Recurse([prompt |-> a.prompt, empty |-> a.empty, default |-> None])]

\* A faulty variant of regex: the retry passes neither default nor empty.
regex_forgets_empty(a, s) ==
    LET subject == IF Len(s) = 0 /\ a.default # None THEN a.default.s ELSE s
        m == re_match(a.pattern, subject, a.flags)
    IN [io |-> <<Input(make_prompt(a.prompt, a.default), s)>>,
        res |-> IF Len(s) = 0 /\ a.default = None /\ a.empty THEN Return(None)
                ELSE IF Truthy(m) THEN Return(m)
                ELSE Recurse([pattern |-> a.pattern, prompt |-> a.prompt, empty |-> FALSE,
                              flags |-> a.flags, default |-> None])]

\* A faulty variant of regex: on an empty line the default is returned as it
\* is, as the other kinds do.
regex_trusts_default(a, s) ==
    LET m == re_match(a.pattern, s, a.flags)
    IN [io |-> <<Input(make_prompt(a.prompt, a.default), s)>>,
        res |-> IF Len(s) = 0 /\ a.default # None THEN Return(a.default)
                ELSE IF Len(s) = 0 /\ a.empty THEN Return(None)
                ELSE IF Truthy(m) THEN Return(m)
                ELSE Recurse([pattern |-> a.pattern, prompt |-> a.prompt, empty |-> a.empty,
                              flags |-> a.flags, default |-> None])]

regex(a, s) ==
    LET subject == IF Len(s) = 0 /\ a.default # None THEN a.default.s ELSE s
        m == re_match(a.pattern, subject, a.flags)
    IN [io |-> <<Input(make_prompt(a.prompt, a.default), s)>>,
        res |-> IF Len(s) = 0 /\ a.default = None /\ a.empty THEN Return(None)
                ELSE IF Truthy(m) THEN Return(m)
                ELSE Recurse([pattern |-> a.pattern, prompt |-> a.prompt, empty |-> a.empty,
                              flags |-> a.flags, default |-> None])]

\* A faulty variant of secret: the line is read with input(), which echoes.
secret_echoes(a, s, ok) ==
    [io |-> <<Input(make_prompt(a.prompt, a.default), s)>>,
     res |-> IF Len(s) = 0
             THEN IF a.default # None THEN Return(a.default)
                  ELSE IF a.empty THEN Return(None)
                  ELSE Return(None)
             ELSE IF Len(s) # 0 THEN Return(StrV(s))
             ELSE Recurse([prompt |-> a.prompt, empty |-> a.empty, default |-> None])]

\* secret reads with getpass.getpass; ok is whether the terminal can read
\* without echo (getpass raises GetPassWarning when it cannot).
secret(a, s, ok) ==
    IF ok
    THEN [io |-> <<GetPass(make_prompt(a.prompt, a.default), s)>>,
          res |-> IF Len(s) = 0
                  THEN IF a.default # None THEN Return(a.default)
                       ELSE IF a.empty THEN Return(None)
                       ELSE Return(None)   \* the body ends
                  ELSE IF Len(s) # 0 THEN Return(StrV(s))
                  ELSE Recurse([prompt |-> a.prompt, empty |-> a.empty, default |-> None])]
    ELSE [io |-> <<GetPassFailed(make_prompt(a.prompt, a.default))>>,
          res |-> Raise("GetPassWarning")]

\* A faulty variant of string: a line of whitespace only is rejected
\* (`if s.strip()`).
string_rejects_blank(a, s) ==
    [io |-> <<Input(make_prompt(a.prompt, a.default), s)>>,
     res |-> IF Len(s) = 0
             THEN IF a.default # None THEN Return(a.default)
                  ELSE IF a.empty THEN Return(None)
                  ELSE Return(None)
             ELSE IF Len(Strip(s)) # 0 THEN Return(StrV(s))
             ELSE Recurse([prompt |-> a.prompt, empty |-> a.empty, default |-> None])]

string(a, s) ==
    [io |-> <<Input(make_prompt(a.prompt, a.default), s)>>,
     res |-> IF Len(s) = 0
             THEN IF a.default # None THEN Return(a.default)
                  ELSE IF a.empty THEN Return(None)
                  ELSE Return(None)   \* the body ends
             ELSE IF Len(s) # 0 THEN Return(StrV(s))
             ELSE Recurse([prompt |-> a.prompt, empty |-> a.empty, default |-> None])]

\* A faulty variant of ChoiceLine: the choice is numbered from 0 (n=num).
ChoiceLine_zero_based(n, c) == <<" ", " ", " ", " ">> \o Format(IntV(n - 1)) \o <<":", " ">> \o Format(c)

\* '    {n}: {c}'.format(n=(num + 1), c=cho)
ChoiceLine(n, c) == <<" ", " ", " ", " ">> \o Format(IntV(n)) \o <<":", " ">> \o Format(c)

\* A faulty variant of choice: no `if num < 0: raise ValueError`, so that the
\* tuple is indexed with a negative number.
choice_negative_index(a, s) ==
    LET parsed == py_int(s)
        num == parsed.i - 1
        item == tuple_getitem(a.choices, num)
    IN IF Len(a.choices) < 1
       THEN [io |-> <<>>, res |-> Raise("ValueError")]
       ELSE [io |-> <<Output(Format(a.instruction))>>
                    \o [i \in 1..Len(a.choices) |-> Output(ChoiceLine(i, a.choices[i]))]
                    \o <<Input(make_prompt(a.prompt, a.default), s)>>,
             res |-> IF parsed.t = "int" /\ item # Exc("IndexError")
                     THEN Return(item)
                     ELSE IF Len(s) = 0
                     THEN IF a.default # None THEN Return(a.default)
                          ELSE IF a.empty THEN Return(None)
                          ELSE Return(None)
                     ELSE Recurse([choices |-> a.choices, instruction |-> a.instruction,
                                   prompt |-> a.prompt, empty |-> a.empty, default |-> None])]

choice(a, s) ==
    LET parsed == py_int(s)
        num == parsed.i - 1
        item == tuple_getitem(a.choices, num)
    IN IF Len(a.choices) < 1
       THEN [io |-> <<>>, res |-> Raise("ValueError")]
       ELSE [io |-> <<Output(Format(a.instruction))>>
                    \o [i \in 1..Len(a.choices) |-> Output(ChoiceLine(i, a.choices[i]))]
                    \o <<Input(make_prompt(a.prompt, a.default), s)>>,
             res |-> IF parsed.t = "int" /\ ~(num < 0) /\ item # Exc("IndexError")
                     THEN Return(item)
                     ELSE IF Len(s) = 0
                     THEN IF a.default # None THEN Return(a.default)
                          ELSE IF a.empty THEN Return(None)
                          ELSE Return(None)   \* the body ends
                     ELSE Recurse([choices |-> a.choices, instruction |-> a.instruction,
                                   prompt |-> a.prompt, empty |-> a.empty, default |-> None])]

\* A faulty variant of norm: the text is lowered whatever sensitive is.
norm_always_lower(x, sensitive) == Lower(x)

norm(x, sensitive) == IF sensitive THEN x ELSE Lower(x)

\* A faulty variant of to_bool: prefix matching is applied to an empty line too
\* (`if partial:` without `and len(c)`).
to_bool_prefix_of_empty(c, yes, no, sensitive, partial) ==
    IF partial
    THEN IF StartsWith(norm(yes, sensitive), norm(c, sensitive)) THEN BoolV(TRUE)
         ELSE IF StartsWith(norm(no, sensitive), norm(c, sensitive)) THEN BoolV(FALSE)
         ELSE Exc("ValueError")
    ELSE IF norm(yes, sensitive) = norm(c, sensitive) THEN BoolV(TRUE)
         ELSE IF norm(no, sensitive) = norm(c, sensitive) THEN BoolV(FALSE)
         ELSE Exc("ValueError")

\* A faulty variant of to_bool: under prefix matching "no" is tried before "yes".
to_bool_no_first(c, yes, no, sensitive, partial) ==
    IF partial /\ Len(c) # 0
    THEN IF StartsWith(norm(no, sensitive), norm(c, sensitive)) THEN BoolV(FALSE)
         ELSE IF StartsWith(norm(yes, sensitive), norm(c, sensitive)) THEN BoolV(TRUE)
         ELSE Exc("ValueError")
    ELSE IF norm(yes, sensitive) = norm(c, sensitive) THEN BoolV(TRUE)
         ELSE IF norm(no, sensitive) = norm(c, sensitive) THEN BoolV(FALSE)
         ELSE Exc("ValueError")

\* to_bool(c) inside boolean(yes, no, sensitive, partial): a bool, or ValueError.
to_bool(c, yes, no, sensitive, partial) ==
    IF partial /\ Len(c) # 0
    THEN IF StartsWith(norm(yes, sensitive), norm(c, sensitive)) THEN BoolV(TRUE)
         ELSE IF StartsWith(norm(no, sensitive), norm(c, sensitive)) THEN BoolV(FALSE)
         ELSE Exc("ValueError")
    ELSE IF norm(yes, sensitive) = norm(c, sensitive) THEN BoolV(TRUE)
         ELSE IF norm(no, sensitive) = norm(c, sensitive) THEN BoolV(FALSE)
         ELSE Exc("ValueError")

\* '{y}/{n}? ', the token that is the default in brackets.
BooleanPrompt(yes, no, default) ==
    (IF default = BoolV(TRUE) THEN <<"[">> \o yes \o <<"]">> ELSE yes)
    \o <<"/">>
    \o (IF default = BoolV(FALSE) THEN <<"[">> \o no \o <<"]">> ELSE no)
    \o <<"?", " ">>

\* A faulty variant of boolean: the retry does not pass the default on, as the
\* retries of the other kinds do.
boolean_forgets_default(a, s) ==
    LET prompt == IF a.prompt = None THEN StrV(BooleanPrompt(a.yes.s, a.no.s, a.default))
                  ELSE a.prompt
        b == to_bool(s, a.yes.s, a.no.s, a.sensitive, a.partial)
    IN [io |-> <<Input(Format(prompt), s)>>,
        res |-> IF a.default # None /\ Len(s) = 0 THEN Return(a.default)
                ELSE IF b.t = "bool" THEN Return(b)
                ELSE Recurse([prompt |-> prompt, yes |-> a.yes, no |-> a.no, default |-> None,
                              sensitive |-> a.sensitive, partial |-> a.partial])]

\* A faulty variant of boolean: the line is matched against the tokens first,
\* and the default is used only for an empty line that matches neither.
boolean_match_first(a, s) ==
    LET prompt == IF a.prompt = None THEN StrV(BooleanPrompt(a.yes.s, a.no.s, a.default))
                  ELSE a.prompt
        b == to_bool(s, a.yes.s, a.no.s, a.sensitive, a.partial)
    IN [io |-> <<Input(Format(prompt), s)>>,
        res |-> IF b.t = "bool" THEN Return(b)
                ELSE IF a.default # None /\ Len(s) = 0 THEN Return(a.default)
                ELSE Recurse([prompt |-> prompt, yes |-> a.yes, no |-> a.no, default |-> a.default,
                              sensitive |-> a.sensitive, partial |-> a.partial])]

boolean(a, s) ==
    LET prompt == IF a.prompt = None THEN StrV(BooleanPrompt(a.yes.s, a.no.s, a.default))
                  ELSE a.prompt
        b == to_bool(s, a.yes.s, a.no.s, a.sensitive, a.partial)
    IN [io |-> <<Input(Format(prompt), s)>>,
        res |-> IF a.default # None /\ Len(s) = 0 THEN Return(a.default)
                ELSE IF b.t = "bool" THEN Return(b)
                ELSE Recurse([prompt |-> prompt, yes |-> a.yes, no |-> a.no, default |-> a.default,
                              sensitive |-> a.sensitive, partial |-> a.partial])]

----------------------------------------------------------------------------
(* The calls the caller makes and the lines the terminal delivers *)

Prompts == {None, StrV(<<>>), StrV(<<"p", ">">>)}

CharacterCalls ==
    [prompt : Prompts, empty : BOOLEAN,
     default : {None, StrV(<<"c">>), StrV(<<"a", "b">>), StrV(<<>>)}]
CharacterLines == {<<>>, <<"c">>, <<"a", "b">>, <<"a", "b", "c">>}

EmailCalls ==
    [prompt : Prompts, empty : BOOLEAN, mode : {"simple", "strict"},
     default : {None, StrV(<<"a", "@", "b", ".", "c">>), StrV(<<"x">>)}]
EmailLines == {<<>>, <<"a", "@", "b", ".", "c">>, <<"a", "@", "b">>, <<"a", "@", "@", "b", ".", "c">>,
               <<"@", "b", ".", "c">>}

IntegerCalls ==
    [prompt : Prompts, empty : BOOLEAN, default : {None, IntV(1), IntV(0), StrV(<<"x">>)}]
IntegerLines == {<<>>, <<"1">>, <<"1", "2">>, <<"-", "3">>, <<" ", "7", " ">>, <<"1", "_", "0">>,
                 <<"x">>, <<"1", "x">>, <<"_", "1">>}

RealCalls ==
    [prompt : Prompts, empty : BOOLEAN, default : {None, FloatV(1, 1), FloatV(0, 1), StrV(<<"x">>)}]
RealLines == {<<>>, <<"1", ".", "0">>, <<"1">>, <<".", "5">>, <<"-", "1", ".", "5">>,
              <<".">>, <<"x">>, <<"1", ".", "2", ".", "3">>}

RegexCalls ==
    [pattern : {Pattern(<<"a", "b">>, FALSE), Pattern(<<"a">>, TRUE), Pattern(<<>>, TRUE)},
     prompt : Prompts, empty : BOOLEAN, flags : {0, IGNORECASE},
     default : {None, StrV(<<"a", "b">>), StrV(<<"b">>), StrV(<<>>)}]
RegexLines == {<<>>, <<"a", "b">>, <<"a", "b", "b">>, <<"a">>, <<"A">>, <<"b">>}

SecretCalls ==
    [prompt : Prompts, empty : BOOLEAN, default : {None, StrV(<<"s", "h", "h">>), StrV(<<>>)}]
SecretLines == {<<>>, <<"f", "o", "o">>, <<" ">>}

StringCalls ==
    [prompt : Prompts, empty : BOOLEAN, default : {None, StrV(<<"h", "i">>), StrV(<<>>)}]
StringLines == {<<>>, <<"f", "o", "o">>, <<" ">>}

\* 'Select one of the following: '
Instruction ==
    StrV(<<"S", "e", "l", "e", "c", "t", " ", "o", "n", "e", " ", "o", "f", " ", "t", "h", "e", " ",
           "f", "o", "l", "l", "o", "w", "i", "n", "g", ":", " ">>)

Stooges == <<StrV(<<"m", "o", "e">>), StrV(<<"c", "u", "r", "l", "y">>), StrV(<<"l", "a", "r", "r", "y">>)>>

ChoiceCalls ==
    [choices : {<<>>, Stooges, <<IntV(1), IntV(2)>>}, instruction : {Instruction},
     prompt : Prompts, empty : BOOLEAN, default : {None, IntV(1), StrV(<<"m", "o", "e">>)}]
ChoiceLines == {<<>>, <<"1">>, <<"2">>, <<"3">>, <<"0">>, <<"4">>, <<"-", "1">>, <<"a", "b", "c">>}

Tokens ==
    {<<StrV(<<"y">>), StrV(<<"n">>)>>,
     <<StrV(<<"y", "e", "s">>), StrV(<<"n", "o">>)>>,
     <<StrV(<<"Y">>), StrV(<<"N">>)>>,
     <<StrV(<<"y", "a">>), StrV(<<"y", "o">>)>>,
     <<StrV(<<>>), StrV(<<"n">>)>>}

BooleanCalls ==
    {[prompt |-> p, yes |-> tk[1], no |-> tk[2], default |-> d, sensitive |-> sn, partial |-> pt] :
        p \in {None, StrV(<<"p", ">">>)}, tk \in Tokens, d \in {None, BoolV(TRUE), BoolV(FALSE)},
        sn \in BOOLEAN, pt \in BOOLEAN}
BooleanLines == {<<>>, <<"y">>, <<"y", "e">>, <<"y", "e", "s">>, <<"n">>, <<"n", "o">>,
                 <<"Y">>, <<"N">>, <<"y", "o">>, <<"x">>}

Kinds == {"character", "email", "integer", "real", "regex", "secret", "string", "choice",
          "boolean"}

Calls(k) ==
    CASE k = "character" -> CharacterCalls
      [] k = "email" -> EmailCalls
      [] k = "integer" -> IntegerCalls
      [] k = "real" -> RealCalls
      [] k = "regex" -> RegexCalls
      [] k = "secret" -> SecretCalls
      [] k = "string" -> StringCalls
      [] k = "choice" -> ChoiceCalls
      [] k = "boolean" -> BooleanCalls

----------------------------------------------------------------------------
(* The state machine *)

NoArgs == [prompt |-> None, empty |-> FALSE, default |-> None]

Init ==
    /\ pc = "idle"
    /\ kind = "none"
    /\ call = NoArgs
    /\ args = NoArgs
    /\ io = <<>>
    /\ result = None

\* The reads of the transcript that delivered a line, in order.
ReadEvents == SelectSeq(io, IsRead)
\* The lines read so far, in order.
Reads == [i \in 1..Len(ReadEvents) |-> ReadEvents[i].line]
\* The prompt text each of these reads displayed.
Shown == [i \in 1..Len(ReadEvents) |-> ReadEvents[i].text]

\* The caller calls one of the prompt functions.
Call ==
    /\ pc = "idle"
    /\ \E k \in Kinds : \E a \in Calls(k) :
        /\ kind' = k
        /\ call' = a
        /\ args' = a
    /\ pc' = "running"
    /\ UNCHANGED <<io, result>>

\* A frame executes with effect eff: its I/O happens, then it returns, raises
\* or calls the function again (whose result it returns as it is).
Execute(eff) ==
    /\ io' = io \o eff.io
    /\ IF eff.res.op = "call"
       THEN /\ pc' = "running"
            /\ args' = eff.res.args
            /\ UNCHANGED result
       ELSE /\ pc' = IF eff.res.op = "return" THEN "returned" ELSE "raised"
            /\ result' = eff.res.value
            /\ UNCHANGED args
    /\ UNCHANGED <<kind, call>>

Running(k) == pc = "running" /\ kind = k /\ Len(Reads) < MaxAttempts

Character == Running("character") /\ \E s \in CharacterLines : Execute(character(args, s))
Email == Running("email") /\ \E s \in EmailLines : Execute(email(args, s))
Integer == Running("integer") /\ \E s \in IntegerLines : Execute(integer(args, s))
Real == Running("real") /\ \E s \in RealLines : Execute(real(args, s))
Regex == Running("regex") /\ \E s \in RegexLines : Execute(regex(args, s))
Secret == Running("secret") /\ \E s \in SecretLines : \E ok \in BOOLEAN : Execute(secret(args, s, ok))
String == Running("string") /\ \E s \in StringLines : Execute(string(args, s))
Choice == Running("choice") /\ \E s \in ChoiceLines : Execute(choice(args, s))
Boolean == Running("boolean") /\ \E s \in BooleanLines : Execute(boolean(args, s))

Next ==
    \/ Call
    \/ Character
    \/ Email
    \/ Integer
    \/ Real
    \/ Regex
    \/ Secret
    \/ String
    \/ Choice
    \/ Boolean

Spec == Init /\ [][Next]_vars

----------------------------------------------------------------------------
(* Properties *)

Last(q) == q[Len(q)]

\* The kinds that take an allow-empty option.
EmptyKinds == {"character", "email", "integer", "real", "regex", "secret", "string", "choice"}
\* The kinds whose parse rule can fail.
ParseKinds == {"character", "email", "integer", "real", "regex", "choice"}

\* C1: for every kind that takes an allow-empty option, a call made with
\* empty = True and no default returns None as soon as an empty line is read,
\* be it the first line or one after rejected lines, and reads no further line:
\* every empty line in the transcript is the last line read, and the call has
\* returned None.
C1_EmptyAllowedReturnsNone ==
    (kind \in EmptyKinds /\ call.empty /\ call.default = None)
    => \A i \in 1..Len(Reads) :
          Reads[i] = <<>> => (i = Len(Reads) /\ pc = "returned" /\ result = None)

\* C1's case: a choice call with empty allowed and no default returned None at
\* an empty line that followed two rejected lines.
C1_Witness ==
    /\ kind = "choice" /\ call.empty /\ call.default = None
    /\ Len(Reads) = 3 /\ Reads[1] # <<>> /\ Reads[2] # <<>> /\ Reads[3] = <<>>
    /\ pc = "returned" /\ result = None

\* C2: for every kind but regex and boolean, a call made with a default whose
\* first line is empty returns exactly the default, unvalidated, after that one
\* line, whatever empty is.
C2_DefaultReturnedOnFirstEmptyLine ==
    (/\ kind \in EmptyKinds \ {"regex"}
     /\ call.default # None
     /\ Len(Reads) >= 1
     /\ Reads[1] = <<>>)
    => (pc = "returned" /\ result = call.default /\ Len(Reads) = 1)

\* C2's case: integer called with empty = True and the default "x", which
\* int() rejects, returned "x" at the first, empty line.
C2_Witness ==
    /\ kind = "integer" /\ call.empty /\ call.default = StrV(<<"x">>)
    /\ py_int(call.default.s).t # "int"
    /\ Reads = << <<>> >>
    /\ pc = "returned" /\ result = StrV(<<"x">>)

\* C3 (as claimed): for character, email, integer, real, regex and choice every
\* attempt of a call runs with the parameters of the call: (a) every attempt
\* displays the prompt text of the first, (b) the empty-line policy (empty,
\* default) of every attempt is that of the call, and in particular a call with
\* a default returns it at an empty line that follows rejected lines (for
\* regex: does not return None there).
C3_RetryKeepsParameters ==
    (kind \in ParseKinds /\ pc # "idle")
    => /\ \A i \in 1..Len(Shown) : Shown[i] = Shown[1]
       /\ args.empty = call.empty /\ args.default = call.default
       /\ (/\ call.default # None
           /\ Len(Reads) >= 2
           /\ Last(Reads) = <<>>
           /\ \A i \in 1..(Len(Reads) - 1) : Reads[i] # <<>>)
          => IF kind = "regex" THEN ~(pc = "returned" /\ result = None)
             ELSE pc = "returned" /\ result = call.default

\* C4 (as claimed): in a call made with empty = False and no default an empty
\* line never ends the call: after an empty line the call is still running, and
\* when the call returns, it returns a value that came from a non-empty line.
C4_EmptyNotAllowedNeverEnds ==
    (kind \in EmptyKinds /\ ~call.empty /\ call.default = None)
    => /\ \A i \in 1..Len(Reads) : Reads[i] = <<>> => (i < Len(Reads) \/ pc = "running")
       /\ pc = "returned" => (result # None /\ Last(Reads) # <<>>)

\* C5 (as claimed): whenever a call of any kind returns None, it was made with
\* empty = True and no default, and the last line read was empty.
C5_NoneOnlyWhenAllowed ==
    (pc = "returned" /\ result = None)
    => (/\ kind \in EmptyKinds
        /\ call.empty
        /\ call.default = None
        /\ Len(Reads) >= 1
        /\ Last(Reads) = <<>>)

\* The parse rule of a kind on a non-empty line: the value it yields, or None
\* when it rejects the line.
ParseRule(k, a, s) ==
    CASE k = "character" -> IF Len(s) = 1 THEN StrV(s) ELSE None
      [] k = "email" -> IF RE_EMAIL_SIMPLE(s) THEN StrV(s) ELSE None
      [] k = "integer" -> IF py_int(s).t = "int" THEN py_int(s) ELSE None
      [] k = "real" -> IF py_float(s).t = "float" THEN py_float(s) ELSE None
      [] k = "regex" -> re_match(a.pattern, s, a.flags)
      [] k = "choice" -> IF py_int(s).t = "int" /\ py_int(s).i \in 1..Len(a.choices)
                         THEN a.choices[py_int(s).i] ELSE None

\* C6: for the kinds with a failing parse and any empty/default setting, as long
\* as only non-empty lines are read: a line the parse rule accepts is the last
\* line read and the call has returned its parse; a rejected line leaves the
\* call running (it is neither returned nor raised), so that k rejected lines
\* and an accepted one end the call after exactly k+1 reads.  character accepts
\* exactly the lines of length 1, and integer returns the base-10 value.
C6_FirstAcceptedLineIsReturned ==
    (kind \in ParseKinds /\ \A i \in 1..Len(Reads) : Reads[i] # <<>>)
    => /\ \A i \in 1..Len(Reads) :
             IF ParseRule(kind, call, Reads[i]) # None
             THEN i = Len(Reads) /\ pc = "returned" /\ result = ParseRule(kind, call, Reads[i])
             ELSE i < Len(Reads) \/ pc = "running"
       /\ (kind = "character" /\ pc = "returned") => (Len(Last(Reads)) = 1 /\ result = StrV(Last(Reads)))
       /\ (kind = "character" /\ Len(Reads) > 0 /\ Len(Last(Reads)) >= 2) => pc = "running"
       /\ (kind = "integer" /\ Len(Reads) > 0 /\ Last(Reads) = <<"1", "2">>) => result = IntV(12)
       /\ (kind = "integer" /\ Len(Reads) > 0 /\ Last(Reads) = <<"-", "3">>) => result = IntV(-3)

\* C6's case: character called with a default read two lines of length >= 2
\* and then "c", and returned "c" at the third read.
C6_Witness ==
    /\ kind = "character" /\ call.default # None
    /\ Len(Reads) = 3 /\ Len(Reads[1]) >= 2 /\ Len(Reads[2]) >= 2 /\ Reads[3] = <<"c">>
    /\ pc = "returned" /\ result = StrV(<<"c">>)

\* C7: choice over n >= 1 items never raises, and a non-empty line is accepted
\* iff it parses as an integer i with 1 <= i <= n; then the call returns the
\* i-th item of the choices as given.  Every other non-empty line (0, negative,
\* > n, not an integer) is rejected: the call reads on, returning no item.
C7_ChoiceIndex ==
    (kind = "choice" /\ Len(call.choices) >= 1)
    => /\ pc # "raised"
       /\ \A i \in 1..Len(Reads) :
             Reads[i] # <<>>
             => IF py_int(Reads[i]).t = "int" /\ 1 <= py_int(Reads[i]).i
                   /\ py_int(Reads[i]).i <= Len(call.choices)
                THEN /\ i = Len(Reads)
                     /\ pc = "returned"
                     /\ result = call.choices[py_int(Reads[i]).i]
                ELSE i < Len(Reads) \/ pc = "running"

\* C7's case: choice over moe, curly, larry read "0", then "4", then "1" and
\* returned "moe".
C7_Witness ==
    /\ kind = "choice" /\ call.choices = Stooges
    /\ Reads = << <<"0">>, <<"4">>, <<"1">> >>
    /\ pc = "returned" /\ result = StrV(<<"m", "o", "e">>)

\* C8: regex with a default set whose first line is empty matches the default
\* string against the pattern: the call returns at that attempt iff the default
\* matches, and what it returns is the match object of the default string, never
\* the default itself.
C8_RegexDefaultIsMatched ==
    (kind = "regex" /\ call.default # None /\ Len(Reads) >= 1 /\ Reads[1] = <<>>)
    => IF re_match(call.pattern, call.default.s, call.flags) # None
       THEN /\ pc = "returned"
            /\ Len(Reads) = 1
            /\ result = MatchV(call.pattern, call.default.s, Len(call.pattern.lit))
            /\ result # call.default
       ELSE ~(pc = "returned" /\ Len(Reads) = 1)

\* C8's case: regex(r"ab", default="ab") read an empty line and returned the
\* match of "ab", whose subject is the default.
C8_Witness ==
    /\ kind = "regex" /\ call.default = StrV(<<"a", "b">>)
    /\ call.pattern = Pattern(<<"a", "b">>, FALSE)
    /\ Reads = << <<>> >>
    /\ pc = "returned" /\ result.t = "match" /\ result.string = <<"a", "b">>

\* C9 (as claimed): regex called with a default that does not match the
\* pattern, reading empty lines only, never returns, whatever empty and the
\* pattern are.
C9_RegexBadDefaultNeverReturns ==
    (/\ kind = "regex"
     /\ call.default # None
     /\ re_match(call.pattern, call.default.s, call.flags) = None
     /\ \A i \in 1..Len(Reads) : Reads[i] = <<>>)
    => pc \notin {"returned", "raised"}

\* C10: boolean with partial = True: a non-empty line is accepted as True if
\* the case-normalized yes-token starts with the normalized line, otherwise as
\* False if the no-token does, otherwise it is rejected and the call reads on;
\* yes is tried first, so a prefix of both tokens gives True.  With yes = "yes"
\* the lines "y", "ye", "yes" give True; with no = "no", "n" and "no" give False.
C10_BooleanPrefixMatch ==
    (kind = "boolean" /\ call.partial)
    => \A i \in 1..Len(Reads) :
          Reads[i] # <<>>
          => LET fold(x) == IF call.sensitive THEN x ELSE Lower(x)
                 c == fold(Reads[i])
                 isYes == StartsWith(fold(call.yes.s), c)
                 isNo == StartsWith(fold(call.no.s), c)
             IN /\ isYes => (i = Len(Reads) /\ pc = "returned" /\ result = BoolV(TRUE))
                /\ (~isYes /\ isNo) => (i = Len(Reads) /\ pc = "returned" /\ result = BoolV(FALSE))
                /\ (~isYes /\ ~isNo) => (i < Len(Reads) \/ pc = "running")
                /\ (call.yes.s = <<"y", "e", "s">>
                    /\ Reads[i] \in {<<"y">>, <<"y", "e">>, <<"y", "e", "s">>})
                   => result = BoolV(TRUE)
                /\ (call.no.s = <<"n", "o">> /\ call.yes.s = <<"y", "e", "s">>
                    /\ Reads[i] \in {<<"n">>, <<"n", "o">>})
                   => result = BoolV(FALSE)

\* C10's case: boolean(yes="ya", no="yo") under prefix matching rejected "x",
\* then read "y", a prefix of both tokens, and returned True.
C10_Witness ==
    /\ kind = "boolean" /\ call.partial
    /\ call.yes = StrV(<<"y", "a">>) /\ call.no = StrV(<<"y", "o">>)
    /\ Reads = << <<"x">>, <<"y">> >>
    /\ pc = "returned" /\ result = BoolV(TRUE)

\* C11: boolean with sensitive = True compares the line with the tokens as
\* they are, so a line that differs from a token in letter case only is
\* rejected (yes = "Y": "y" is rejected, then "Y" returns True after exactly two
\* reads); with sensitive = False line and tokens are lowered first, so the
\* outcome of a non-empty line depends on the lowered line and tokens only.
C11_BooleanCaseHandling ==
    (kind = "boolean")
    => /\ \A i \in 1..Len(Reads) :
             Reads[i] # <<>>
             => LET c == IF call.sensitive THEN Reads[i] ELSE Lower(Reads[i])
                    y == IF call.sensitive THEN call.yes.s ELSE Lower(call.yes.s)
                    n == IF call.sensitive THEN call.no.s ELSE Lower(call.no.s)
                    isYes == IF call.partial THEN StartsWith(y, c) ELSE y = c
                    isNo == IF call.partial THEN StartsWith(n, c) ELSE n = c
                IN IF isYes THEN i = Len(Reads) /\ pc = "returned" /\ result = BoolV(TRUE)
                   ELSE IF isNo THEN i = Len(Reads) /\ pc = "returned" /\ result = BoolV(FALSE)
                   ELSE i < Len(Reads) \/ pc = "running"
       /\ (call.sensitive /\ call.yes.s = <<"Y">> /\ Len(Reads) >= 1 /\ Reads[1] = <<"y">>)
          => /\ Len(Reads) = 1 => pc = "running"
             /\ (Len(Reads) >= 2 /\ Reads[2] = <<"Y">>)
                => (Len(Reads) = 2 /\ pc = "returned" /\ result = BoolV(TRUE))
       /\ (~call.sensitive /\ call.yes.s \in {<<"y">>, <<"Y">>} /\ Len(Reads) >= 1
           /\ Reads[1] \in {<<"y">>, <<"Y">>})
          => (Len(Reads) = 1 /\ pc = "returned" /\ result = BoolV(TRUE))

\* C11's case: boolean(yes="Y", sensitive=True) rejected "y", read "Y" and
\* returned True, two lines being read.
C11_Witness ==
    /\ kind = "boolean" /\ call.sensitive /\ call.yes = StrV(<<"Y">>)
    /\ Reads = << <<"y">>, <<"Y">> >>
    /\ pc = "returned" /\ result = BoolV(TRUE)

\* C12: boolean with a default set returns the default at once when the first
\* line is empty, before any matching against the tokens and whatever the
\* tokens, sensitive and partial are (also when a token is the empty string).
C12_BooleanDefaultShortCircuit ==
    (kind = "boolean" /\ call.default # None /\ Len(Reads) >= 1 /\ Reads[1] = <<>>)
    => (pc = "returned" /\ result = call.default /\ Len(Reads) = 1)

\* C12's case: boolean(yes="", default=False) read an empty line, which equals
\* the yes-token, and returned the default False.
C12_Witness ==
    /\ kind = "boolean" /\ call.yes = StrV(<<>>) /\ call.default = BoolV(FALSE)
    /\ Reads = << <<>> >>
    /\ pc = "returned" /\ result = BoolV(FALSE)

\* The calls whose arguments are invalid: choice with no choice, email with a
\* mode other than "simple".
InvalidArguments ==
    \/ kind = "choice" /\ Len(call.choices) = 0
    \/ kind = "email" /\ call.mode # "simple"

\* C13: invalid arguments are fatal and precede all I/O: the one step a call
\* with invalid arguments takes raises ValueError with nothing displayed and no
\* line read (the transcript is empty), and there is no retry: the call never
\* returns and its frame arguments never change.
C13_InvalidArgumentsRaiseBeforeIO ==
    [][(InvalidArguments /\ pc = "running")
       => (/\ io = <<>>
           /\ io' = <<>>
           /\ pc' = "raised"
           /\ result' = Exc("ValueError")
           /\ args' = call)]_vars

\* C13's case: choice called with no choices has raised ValueError, the
\* transcript being empty.
C13_Witness ==
    /\ kind = "choice" /\ Len(call.choices) = 0
    /\ pc = "raised" /\ result = Exc("ValueError")
    /\ io = <<>>

\* C14 (as claimed): the prompt text a non-boolean kind displays is a function
\* of the prompt and the default of the call: the prompt text when one was
\* supplied, else "[<default>]? " when a default is set (whatever its value: 0,
\* 0.0 and "" as well), else the standard marker "? "; the marker is displayed
\* only when neither was supplied.
C14_PromptText ==
    (kind \in EmptyKinds /\ Len(Shown) >= 1)
    => /\ Shown[1] = IF call.prompt # None THEN call.prompt.s
                     ELSE IF call.default # None
                          THEN <<"[">> \o Format(call.default) \o <<"]", "?", " ">>
                     ELSE PROMPT
       /\ Shown[1] = PROMPT => (call.prompt = None /\ call.default = None)

\* C15: boolean retries with the parameters of the call: every attempt displays
\* the prompt text of the first (the supplied text, else both tokens with the
\* token of the default in brackets) and runs with the tokens, default,
\* sensitive and partial of the call; so a call with a default returns it at the
\* first empty line, also after rejected lines, and a call without a default
\* and with two non-empty tokens never ends on an empty line.
C15_BooleanRetryKeepsParameters ==
    (kind = "boolean" /\ pc # "idle")
    => /\ \A i \in 1..Len(Shown) :
             Shown[i] = IF call.prompt # None THEN call.prompt.s
                        ELSE (IF call.default = BoolV(TRUE)
                              THEN <<"[">> \o call.yes.s \o <<"]">> ELSE call.yes.s)
                             \o <<"/">>
                             \o (IF call.default = BoolV(FALSE)
                                 THEN <<"[">> \o call.no.s \o <<"]">> ELSE call.no.s)
                             \o <<"?", " ">>
       /\ args.yes = call.yes /\ args.no = call.no /\ args.default = call.default
       /\ args.sensitive = call.sensitive /\ args.partial = call.partial
       /\ \A i \in 1..Len(Reads) :
             Reads[i] = <<>>
             => IF call.default # None
                THEN i = Len(Reads) /\ pc = "returned" /\ result = call.default
                ELSE (call.yes.s # <<>> /\ call.no.s # <<>>) => (i < Len(Reads) \/ pc = "running")

\* C15's case: boolean(default=True) rejected two lines, displayed "[y]/n? "
\* three times and returned True at the empty third line.
C15_Witness ==
    /\ kind = "boolean" /\ call.default = BoolV(TRUE) /\ call.prompt = None
    /\ call.yes = StrV(<<"y">>) /\ call.no = StrV(<<"n">>)
    /\ Len(Reads) = 3 /\ Reads[1] = <<"x">> /\ Reads[2] = <<"x">> /\ Reads[3] = <<>>
    /\ Shown = << <<"[", "y", "]", "/", "n", "?", " ">>, <<"[", "y", "]", "/", "n", "?", " ">>,
                  <<"[", "y", "]", "/", "n", "?", " ">> >>
    /\ pc = "returned" /\ result = BoolV(TRUE)

\* C16: boolean with partial = False accepts a line only if, after case
\* normalization, it equals the yes-token (True) or the no-token (False); a
\* proper prefix of a token and every other line is rejected and the call reads
\* on.  An empty line that the default does not answer is held to the same
\* equality under prefix matching, so it is never taken as a prefix of a
\* non-empty token.
C16_BooleanExactMatch ==
    (kind = "boolean")
    => \A i \in 1..Len(Reads) :
          ((~call.partial /\ ~(Reads[i] = <<>> /\ call.default # None))
           \/ (call.partial /\ Reads[i] = <<>> /\ call.default = None))
          => LET c == IF call.sensitive THEN Reads[i] ELSE Lower(Reads[i])
                 y == IF call.sensitive THEN call.yes.s ELSE Lower(call.yes.s)
                 n == IF call.sensitive THEN call.no.s ELSE Lower(call.no.s)
             IN IF y = c THEN i = Len(Reads) /\ pc = "returned" /\ result = BoolV(TRUE)
                ELSE IF n = c THEN i = Len(Reads) /\ pc = "returned" /\ result = BoolV(FALSE)
                ELSE i < Len(Reads) \/ pc = "running"

\* C16's case: boolean(yes="yes", no="no", partial=False) rejected the proper
\* prefixes "y" and "ye" and returned True at "yes".
C16_Witness ==
    /\ kind = "boolean" /\ ~call.partial
    /\ call.yes = StrV(<<"y", "e", "s">>)
    /\ Reads = << <<"y">>, <<"y", "e">>, <<"y", "e", "s">> >>
    /\ pc = "returned" /\ result = BoolV(TRUE)

\* C17: in every attempt of a choice call the instruction is printed, then
\* every choice in the given order behind its 1-based index, and only then one
\* line is read: the transcript is one such block per line read, each with the
\* instruction and the choices of the call, so the displays are as many as the
\* reads and each read follows exactly one full display.
C17_ChoiceDisplayThenRead ==
    (kind = "choice" /\ Len(call.choices) >= 1)
    => LET n == Len(call.choices)
           block == n + 2
       IN /\ Len(io) = block * Len(Reads)
          /\ \A k \in 0..(Len(Reads) - 1) :
                /\ io[k * block + 1] = [op |-> "print", text |-> call.instruction.s]
                /\ \A j \in 1..n :
                      io[k * block + 1 + j] =
                         [op |-> "print",
                          text |-> <<" ", " ", " ", " ">> \o IntStr(j) \o <<":", " ">>
                                   \o Format(call.choices[j])]
                /\ io[k * block + block].op = "input"
                /\ io[k * block + block].line = Reads[k + 1]

\* C17's case: choice over moe, curly, larry made three attempts: three reads,
\* each behind the instruction and the three numbered choices.
C17_Witness ==
    /\ kind = "choice" /\ call.choices = Stooges
    /\ Len(Reads) = 3
    /\ Len(io) = 15
    /\ io[11].op = "print" /\ io[15].op = "input"
    /\ io[12].text = <<" ", " ", " ", " ", "1", ":", " ", "m", "o", "e">>

C19_SecretReadsWithoutEcho ==
    /\ \A i \in 1..Len(io) :
          /\ kind = "secret" => io[i].op \in {"getpass", "getpass_failed"}
          /\ kind # "secret" => io[i].op \in {"input", "print"}
          /\ io[i].op = "getpass_failed"
             => /\ i = Len(io)
                /\ Len(Reads) = 0
                /\ pc = "raised"
                /\ result = Exc("GetPassWarning")
    /\ (kind = "secret" /\ pc = "raised") => (Len(io) = 1 /\ io[1].op = "getpass_failed")

\* C19's case: the no-echo read of a secret call failed and the call raised
\* the error, no line being read.
C19_Witness ==
    /\ kind = "secret"
    /\ Len(io) = 1 /\ io[1].op = "getpass_failed"
    /\ Reads = <<>>
    /\ pc = "raised" /\ result = Exc("GetPassWarning")

====
